---- MODULE Spec2Model ----
(***************************************************************************)
(* Model of snap_plugin/v1/plugin.py: argument and configuration           *)
(* resolution (Plugin._parse_args, _set_log_level), the handshake preamble *)
(* (_generate_preamble_and_serve), the plugin life cycle (start_plugin,    *)
(* stop_plugin, ping) and the ping watchdog (_monitor).                    *)
(*                                                                         *)
(* Time is kept in milliseconds; the clock advances in steps of TickMs.    *)
(***************************************************************************)
EXTENDS Integers, Sequences, FiniteSets, TLC

(***************************************************************************)
(* Bounds of the model.                                                    *)
(***************************************************************************)
\* the clock runs from 0 to MaxTime ticks
MaxTime == 17
\* a sleeping thread wakes at most MaxJitter ticks after its sleep interval
MaxJitter == 1
\* start_plugin is called at most MaxStartDelay ticks after construction
MaxStartDelay == 1
\* the log levels tried run from 0 to MaxLogLevelTried
MaxLogLevelTried == 6
\* the stand-alone HTTP server is followed for MaxRequests requests
MaxRequests == 2
\* a config policy has at most MaxRules rules, a catalog at most MaxMetrics
\* metrics
MaxRules == 2
MaxMetrics == 2

(***************************************************************************)
(* Program constants.                                                      *)
(***************************************************************************)
\* _get_ping_timeout_duration: milliseconds in a second
MsPerSec == 1000
\* _monitor: _sleep_interval = 1 (second)
SleepIntervalSec == 1
\* one clock step, in milliseconds: the watchdog's sleep interval
TickMs == SleepIntervalSec * MsPerSec
\* _get_ping_timeout_duration: default of 5 (seconds)
DefaultTimeoutSec == 5
\* _monitor: shutdown when _timeout_count >= 3
MaxMissed == 3
\* _set_log_level: LOG.setLevel(30) when no log level is provided
WarnLevel == 30
\* the "log-level" flag's default
DefaultLogLevelFlag == 3
\* logging: WARNING, ERROR, INFO, DEBUG severities of the LOG calls
LvlDebug == 10
LvlInfo == 20
LvlWarning == 30
LvlError == 40
\* logging: a logger whose level was never set (NOTSET)
NotSet == 0

(***************************************************************************)
(* Optional values: None is the empty tuple, Some(x) a one-element tuple.  *)
(***************************************************************************)
None == << >>
Some(x) == << x >>

(***************************************************************************)
(* JSON text as a sequence of tokens, and json.loads over it.  The grammar *)
(* covers what the configuration uses: an object of integer members, or a  *)
(* bare integer; anything else is a ValueError.                            *)
(***************************************************************************)
Tok(k, s, n) == [k |-> k, s |-> s, n |-> n]
LB == Tok("{", "", 0)
RB == Tok("}", "", 0)
COLON == Tok(":", "", 0)
COMMA == Tok(",", "", 0)
TStr(s) == Tok("str", s, 0)
TNum(n) == Tok("num", "", n)
TBad == Tok("bad", "bad", 0)

EmptyObj == [k \in {} |-> 0]
\* a Python value held by self._config: a dict, or an int
PyDict(f) == [kind |-> "dict", obj |-> f, n |-> 0]
PyInt(n) == [kind |-> "int", obj |-> EmptyObj, n |-> n]
LoadsOk(v) == [err |-> FALSE, val |-> v]
LoadsValueError == [err |-> TRUE, val |-> PyDict(EmptyObj)]

RECURSIVE ParseMembers(_, _, _)
ParseMembers(toks, i, acc) ==
    IF i + 3 > Len(toks) THEN LoadsValueError
    ELSE IF toks[i].k # "str" \/ toks[i+1].k # ":" \/ toks[i+2].k # "num"
         THEN LoadsValueError
    ELSE LET acc2 == (toks[i].s :> toks[i+2].n) @@ acc IN
         IF toks[i+3].k = "}"
         THEN (IF i + 3 = Len(toks) THEN LoadsOk(PyDict(acc2)) ELSE LoadsValueError)
         ELSE IF toks[i+3].k = ","
         THEN ParseMembers(toks, i + 4, acc2)
         ELSE LoadsValueError

json_loads(toks) ==
    IF Len(toks) = 0 THEN LoadsValueError
    ELSE IF toks[1].k = "num"
         THEN (IF Len(toks) = 1 THEN LoadsOk(PyInt(toks[1].n)) ELSE LoadsValueError)
    ELSE IF toks[1].k = "{"
         THEN (IF Len(toks) = 2 /\ toks[2].k = "}"
               THEN LoadsOk(PyDict(EmptyObj))
               ELSE ParseMembers(toks, 2, EmptyObj))
    ELSE LoadsValueError

\* int() of a decimal string, given as its sequence of digits
RECURSIVE py_int(_)
py_int(digits) ==
    IF Len(digits) = 0 THEN 0
    ELSE 10 * py_int(SubSeq(digits, 1, Len(digits) - 1)) + digits[Len(digits)]

(***************************************************************************)
(* Enumerations (name -> declared value) and Meta.                         *)
(***************************************************************************)
PluginTypeValue == [collector |-> 0, processor |-> 1, publisher |-> 2, stream_collector |-> 3]
RoutingStrategyValue == [lru |-> 0, sticky |-> 1, config |-> 2]
RPCTypeValue == [native |-> 0, json |-> 1, grpc |-> 2, grpc_stream |-> 3]
PluginResponseStateValue == [plugin_success |-> 0, plugin_failure |-> 1]
\* RPCType.__str__, lines 181-188
RPCType_str == [native |-> "Native", json |-> "JSON", grpc |-> "gRPC", grpc_stream |-> "gRPCStream"]
PluginModes == {"normal", "diagnostics", "standalone"}

\* Meta(type, name, version, ...): the constructor's defaults are
\* concurrency_count=5, routing_strategy=lru, exclusive=False, cache_ttl=None,
\* rpc_type=grpc, rpc_version=1, unsecure=True
Meta(type, name, version, concurrency_count, routing_strategy, exclusive, cache_ttl, rpc_type, rpc_version, unsecure) ==
    [name |-> name, version |-> version, type |-> type,
     concurrency_count |-> concurrency_count,
     routing_strategy |-> routing_strategy, exclusive |-> exclusive,
     cache_ttl |-> cache_ttl, rpc_type |-> rpc_type,
     rpc_version |-> rpc_version, unsecure |-> unsecure]

(***************************************************************************)
(* State.                                                                  *)
(***************************************************************************)
VARIABLES
    args,           \* the command line: framework_config, config, stand_alone, log_level
    meta,           \* self.meta
    mode,           \* self._mode
    config,         \* self._config
    logLevel,       \* the level set on LOG (NotSet until setLevel is called)
    log,            \* the records LOG has emitted
    main_pc,        \* where the main thread is in start_plugin
    exc,            \* the exception that ended the main thread, or "none"
    server_stage,   \* self.server: "new", "started", "grace" or "stopped"
    port,           \* self._port
    releases,       \* how many times the listener's resources were released
    stdout,         \* what was written to sys.stdout, in order
    flushed,        \* how many of those writes have been flushed
    timeout,        \* the watchdog's timeout kwarg, in ms
    mon_pc,         \* where the watchdog thread is in _monitor
    timeout_count,  \* _monitor._timeout_count
    last_check,     \* _monitor._last_check
    sleep_interval, \* _monitor._sleep_interval, in ms
    mon_wake,       \* when the watchdog's current sleep ends
    last_ping,      \* self._last_ping
    shutting_down,  \* self._shutting_down
    stop_pc,        \* per caller of stop_plugin: where it is in stop_plugin
    stop_ev,        \* per caller of stop_plugin: its _stop_event
    now,            \* time.time(), in ms since construction
    preamble,       \* start_plugin's local preamble, once built
    free_ports,     \* the ports the OS may assign to '127.0.0.1:0'
    py,             \* the major version of the Python interpreter, 2 or 3
    plugin,         \* the plugin's own code: its config policy and its catalog
    diag,           \* what _print_diagnostic did: calls made, metrics configured
    http,           \* self.standalone_server: "none", "bound" or "closed"
    hist            \* history of the run, for stating the properties

vars == << args, meta, mode, config, logLevel, log, main_pc, exc, server_stage,
           port, releases, stdout, flushed, timeout, mon_pc, timeout_count,
           last_check, sleep_interval, mon_wake, last_ping, shutting_down,
           stop_pc, stop_ev, now, preamble, free_ports, py, plugin, diag, http,
           hist >>

(***************************************************************************)
(* logging: a record is emitted when its severity reaches the logger's     *)
(* effective level; a logger at NOTSET inherits the root's WARNING.        *)
(***************************************************************************)
EffectiveLevel(level) == IF level = NotSet THEN LvlWarning ELSE level
LogRecord(sev, msg, n) == [sev |-> sev, msg |-> msg, n |-> n]
Emit(lg, level, sev, msg, n) ==
    IF sev >= EffectiveLevel(level) THEN lg \cup {LogRecord(sev, msg, n)} ELSE lg

(***************************************************************************)
(* Plugin._parse_args, lines 413-440.                                      *)
(***************************************************************************)
\* a resolution that looks at the stand-alone flag first
parse_mode_flag_first(a, mode0) ==
    IF a.stand_alone THEN "standalone"
    ELSE IF a.framework_config # None THEN mode0
    ELSE "diagnostics"

\* lines 416-424: the mode, given the mode set by __init__
parse_mode(a, mode0) ==
    IF a.framework_config # None THEN mode0
    ELSE IF a.stand_alone THEN "standalone"
    ELSE "diagnostics"

\* lines 416-418: self._args.config after the framework config replaced it
args_config(a) ==
    IF a.framework_config # None THEN a.framework_config ELSE a.config

\* a parse failure that keeps the dictionary of line 414
load_config_keeps_flag(a) ==
    LET cfg0 == PyDict("LogLevel" :> py_int(a.log_level))
        src == args_config(a)
    IN  IF src # None
        THEN LET r == json_loads(src[1]) IN
             IF r.err THEN [config |-> cfg0, invalid |-> TRUE]
             ELSE [config |-> r.val, invalid |-> FALSE]
        ELSE [config |-> cfg0, invalid |-> FALSE]

\* a parsed object that is merged into the dictionary of line 414
load_config_merged(a) ==
    LET cfg0 == PyDict("LogLevel" :> py_int(a.log_level))
        src == args_config(a)
    IN  IF src # None
        THEN LET r == json_loads(src[1]) IN
             IF r.err THEN [config |-> PyDict(EmptyObj), invalid |-> TRUE]
             ELSE IF r.val.kind = "dict"
             THEN [config |-> PyDict(r.val.obj @@ cfg0.obj), invalid |-> FALSE]
             ELSE [config |-> r.val, invalid |-> FALSE]
        ELSE [config |-> cfg0, invalid |-> FALSE]

\* lines 414, 427-432: self._config and whether the warning was logged
load_config(a) ==
    LET cfg0 == PyDict("LogLevel" :> py_int(a.log_level))
        src == args_config(a)
    IN  IF src # None
        THEN LET r == json_loads(src[1]) IN
             IF r.err THEN [config |-> PyDict(EmptyObj), invalid |-> TRUE]
             ELSE [config |-> r.val, invalid |-> FALSE]
        ELSE [config |-> cfg0, invalid |-> FALSE]

\* a range check that lets level 6 (panic) through
set_log_level_upto6(cfg, level0, lg) ==
    IF cfg.kind # "dict" THEN [raised |-> "TypeError", level |-> level0, log |-> lg]
    ELSE IF "LogLevel" \in DOMAIN cfg.obj
    THEN IF 6 >= cfg.obj["LogLevel"] /\ cfg.obj["LogLevel"] >= 1
         THEN [raised |-> "none", level |-> cfg.obj["LogLevel"] * 10,
               log |-> Emit(lg, cfg.obj["LogLevel"] * 10, LvlInfo, "Setting loglevel",
                            cfg.obj["LogLevel"] * 10)]
         ELSE [raised |-> "none", level |-> level0,
               log |-> Emit(lg, level0, LvlError, "The log level should be between 1 and 5",
                            cfg.obj["LogLevel"])]
    ELSE [raised |-> "none", level |-> WarnLevel, log |-> lg]

\* Plugin._set_log_level, lines 455-466: the level of LOG and its records;
\* "LogLevel" in self._config raises TypeError when the config is an int
set_log_level(cfg, level0, lg) ==
    IF cfg.kind # "dict" THEN [raised |-> "TypeError", level |-> level0, log |-> lg]
    ELSE IF "LogLevel" \in DOMAIN cfg.obj
    THEN IF 5 >= cfg.obj["LogLevel"] /\ cfg.obj["LogLevel"] >= 1
         THEN [raised |-> "none", level |-> cfg.obj["LogLevel"] * 10,
               log |-> Emit(lg, cfg.obj["LogLevel"] * 10, LvlInfo, "Setting loglevel",
                            cfg.obj["LogLevel"] * 10)]
         ELSE [raised |-> "none", level |-> level0,
               log |-> Emit(lg, level0, LvlError, "The log level should be between 1 and 5",
                            cfg.obj["LogLevel"])]
    ELSE [raised |-> "none", level |-> WarnLevel, log |-> lg]

\* the interpreters the module is written for (six, past.builtins)
PyVersions == {2, 3}

\* line 476: ms / 1000 of an int, the quotient kept in milliseconds: Python 2
\* floors it to whole seconds, Python 3 divides exactly
py_div_1000(ms, v) == IF v = 2 THEN (ms \div MsPerSec) * MsPerSec ELSE ms

\* Plugin._get_ping_timeout_duration, lines 475-478, in ms
get_ping_timeout_duration(cfg, v) ==
    IF "PingTimeoutDuration" \in DOMAIN cfg.obj
    THEN py_div_1000(cfg.obj["PingTimeoutDuration"], v)
    ELSE DefaultTimeoutSec * MsPerSec

(***************************************************************************)
(* The preamble: json.dumps(..., cls=_EnumEncoder) + "\n".  A JSON value   *)
(* is tagged null, bool, int or str; text is a sequence of pieces.         *)
(***************************************************************************)
JNull == [t |-> "null", n |-> 0, s |-> << >>]
JBool(b) == [t |-> "bool", n |-> IF b THEN 1 ELSE 0, s |-> << >>]
JInt(n) == [t |-> "int", n |-> n, s |-> << >>]
JStr(s) == [t |-> "str", n |-> 0, s |-> s]

\* a text is a sequence of pieces: ASCII strings, and EAcute for the one
\* character e-acute (U+00E9)
EAcute == "U+00E9"

\* an encoder that writes an Enum member by its name
EnumEncoder_default_name(values, member) == JStr(<< member >>)
\* _EnumEncoder.default, lines 140-143: an Enum member is encoded as its value
EnumEncoder_default(values, member) == JInt(values[member])

DigitChar == << "0", "1", "2", "3", "4", "5", "6", "7", "8", "9" >>
\* "{!s}".format(n) of a non-negative int
RECURSIVE py_str(_)
py_str(n) ==
    IF n < 10 THEN << DigitChar[n + 1] >>
    ELSE py_str(n \div 10) \o << DigitChar[(n % 10) + 1] >>

\* an address formatted with the port that was asked for, as on line 366
listen_address_requested(p) == << "127.0.0.1", ":" >> \o py_str(0)
\* "127.0.0.1:{!s}".format(port), lines 366 and 382
listen_address(p) == << "127.0.0.1", ":" >> \o py_str(p)

\* lines 368-390: the document and the text that follows it
generate_preamble(m, p) ==
    [doc |->
        [Meta |->
            [Name |-> JStr(m.name),
             Version |-> JInt(m.version),
             Type |-> EnumEncoder_default(PluginTypeValue, m.type),
             RPCType |-> EnumEncoder_default(RPCTypeValue, m.rpc_type),
             RPCVersion |-> JInt(m.rpc_version),
             ConcurrencyCount |-> JInt(m.concurrency_count),
             Exclusive |-> JBool(m.exclusive),
             Unsecure |-> JBool(m.unsecure),
             CacheTTL |-> IF m.cache_ttl = None THEN JNull ELSE JInt(m.cache_ttl[1]),
             RoutingStrategy |-> EnumEncoder_default(RoutingStrategyValue, m.routing_strategy)],
         ListenAddress |-> JStr(listen_address(p)),
         Token |-> JNull,
         PublicKey |-> JNull,
         Type |-> EnumEncoder_default(PluginTypeValue, m.type),
         ErrorMessage |-> JNull,
         State |-> EnumEncoder_default(PluginResponseStateValue, "plugin_success")],
     tail |-> << "\n" >>]

\* the order in which the document's members are written
MetaKeys ==
    << "Name", "Version", "Type", "RPCType", "RPCVersion", "ConcurrencyCount",
       "Exclusive", "Unsecure", "CacheTTL", "RoutingStrategy" >>
TopKeys == << "ListenAddress", "Token", "PublicKey", "Type", "ErrorMessage", "State" >>

\* a json.dumps that writes non-ASCII characters as they are
json_escape_off(c) == c
\* json.dumps (ensure_ascii): a non-ASCII character is written as \uXXXX
json_escape(c) == IF c = EAcute THEN "\\u00e9" ELSE c

\* json.dumps of a null, a bool, an int or a str, as pieces of text
dumps_value(j) ==
    IF j.t = "null" THEN << "null" >>
    ELSE IF j.t = "bool" THEN << IF j.n = 1 THEN "true" ELSE "false" >>
    ELSE IF j.t = "int" THEN py_str(j.n)
    ELSE << "\"" >> \o [i \in DOMAIN j.s |-> json_escape(j.s[i])] \o << "\"" >>

\* the members keys[i..] of an object, separated by ", "
RECURSIVE dumps_items(_, _, _)
dumps_items(obj, keys, i) ==
    IF i > Len(keys) THEN << >>
    ELSE (IF i > 1 THEN << ", " >> ELSE << >>)
            \o << "\"", keys[i], "\": " >> \o dumps_value(obj[keys[i]])
            \o dumps_items(obj, keys, i + 1)

\* lines 368-390: the string _generate_preamble_and_serve returns
preamble_str(p) ==
    << "{", "\"Meta\": ", "{" >> \o dumps_items(p.doc.Meta, MetaKeys, 1) \o << "}", ", " >>
        \o dumps_items(p.doc, TopKeys, 1) \o << "}" >> \o p.tail

\* len(s) of a str: its number of characters
RECURSIVE py_len(_)
py_len(text) ==
    IF text = << >> THEN 0
    ELSE (IF Head(text) = EAcute THEN 1 ELSE Len(Head(text))) + py_len(Tail(text))

\* s.encode('utf-8'): an ASCII piece is its own bytes, e-acute is two bytes
encode_utf8(text) ==
    [i \in DOMAIN text |->
        IF text[i] = EAcute THEN [bytes |-> << 195, 169 >>, ascii |-> ""]
        ELSE [bytes |-> << >>, ascii |-> text[i]]]

\* the number of bytes of an encoded text
RECURSIVE byte_count(_)
byte_count(b) ==
    IF b = << >> THEN 0
    ELSE Len(Head(b).bytes) + Len(Head(b).ascii) + byte_count(Tail(b))

\* one write to sys.stdout
Written(kind, text) == [kind |-> kind, text |-> text]
NoText == [doc |-> << >>, tail |-> << >>]

(***************************************************************************)
(* The gRPC listener, self.server (lines 268, 305, 366-367).               *)
(***************************************************************************)
\* the callers of stop_plugin: the watchdog and an external Kill request
Callers == {"monitor", "kill"}

\* server.stop(0): the event it returns is already set when the server is not
\* serving; otherwise the shutdown begins (once) and the event is pending
server_stop_stage(stage) == IF stage = "started" THEN "grace" ELSE stage
server_stop_event(stage) == IF stage \in {"new", "stopped"} THEN "set" ELSE "pending"
server_stop_releases(stage, r) == IF stage = "started" THEN r + 1 ELSE r

\* an uncaught exception in the main thread ends the process; after sys.exit()
\* the interpreter still lets the threads that are running finish
ProcessAlive == main_pc # "raised"

\* an RPC call is serviced only while the listener is serving
Serving == ProcessAlive /\ server_stage = "started"

SomeStopReturned == \E c \in Callers : stop_pc[c] = "returned"

(***************************************************************************)
(* The main thread: Plugin.start_plugin.                                   *)
(***************************************************************************)
\* lines 327-329: self._parse_args() and the debug record that follows it
ParseArgs ==
    /\ main_pc = "start"
    /\ LET lc == load_config(args)
           lg1 == IF lc.invalid
                  THEN Emit(log, logLevel, LvlWarning, "Invalid config provided", 0)
                  ELSE log
           sl == set_log_level(lc.config, logLevel, lg1)
       IN  /\ args' = [args EXCEPT !.config = args_config(args)]
           /\ mode' = parse_mode(args, mode)
           /\ config' = lc.config
           /\ logLevel' = sl.level
           /\ IF sl.raised # "none"
              THEN /\ main_pc' = "raised"
                   /\ exc' = sl.raised
                   /\ log' = sl.log
                   /\ UNCHANGED << timeout, mon_pc >>
              ELSE /\ main_pc' = "parsed"
                   /\ exc' = exc
                   /\ timeout' = get_ping_timeout_duration(lc.config, py)
                   /\ mon_pc' = "created"
                   /\ log' = Emit(sl.log, sl.level, LvlDebug, "plugin start called", 0)
    /\ UNCHANGED << meta, server_stage, port, releases, stdout, flushed,
                    timeout_count, last_check, sleep_interval, mon_wake,
                    last_ping, shutting_down, stop_pc, stop_ev, now, preamble, free_ports, py, plugin, diag,
                    http, hist >>

\* lines 332 and 339, Plugin._generate_preamble_and_serve (lines 366-390)
\* a start that brings the RPC listener up in every mode
serves_rpc_in_every_mode(m) == TRUE
\* lines 330 and 338: the branches of start_plugin that call
\* _generate_preamble_and_serve
serves_rpc(m) == m \in {"normal", "standalone"}

GeneratePreambleAndServe ==
    /\ main_pc = "parsed"
    /\ serves_rpc(mode)
    /\ \E p \in free_ports :
          /\ port' = p
          /\ preamble' = Some(generate_preamble(meta, p))
    /\ server_stage' = "started"
    /\ main_pc' = IF mode = "normal" THEN "write" ELSE "http_bind"
    /\ UNCHANGED << args, free_ports, py, plugin, diag, meta, mode, config, logLevel, log, exc, releases,
                    stdout, flushed, timeout, mon_pc, timeout_count, last_check,
                    sleep_interval, mon_wake, last_ping, shutting_down, stop_pc,
                    stop_ev, now, http, hist >>

\* line 333: sys.stdout.write(preamble)
WritePreamble ==
    /\ main_pc = "write"
    /\ stdout' = Append(stdout, Written("preamble", preamble[1]))
    /\ main_pc' = "flush"
    /\ UNCHANGED << args, meta, mode, config, logLevel, log, exc, server_stage,
                    port, releases, flushed, timeout, mon_pc, timeout_count,
                    last_check, sleep_interval, mon_wake, last_ping,
                    shutting_down, stop_pc, stop_ev, now, preamble, free_ports, py, plugin, diag, http, hist >>

\* a start_plugin that goes on without flushing
FlushPreamble_skipped ==
    /\ main_pc = "flush"
    /\ main_pc' = "monitor_start"
    /\ UNCHANGED << args, meta, mode, config, logLevel, log, exc, server_stage,
                    port, releases, stdout, flushed, timeout, mon_pc, timeout_count,
                    last_check, sleep_interval, mon_wake, last_ping,
                    shutting_down, stop_pc, stop_ev, now, preamble, free_ports, py, plugin, diag, http, hist >>

\* line 334: sys.stdout.flush()
FlushPreamble ==
    /\ main_pc = "flush"
    /\ flushed' = Len(stdout)
    /\ main_pc' = "monitor_start"
    /\ UNCHANGED << args, meta, mode, config, logLevel, log, exc, server_stage,
                    port, releases, stdout, timeout, mon_pc, timeout_count,
                    last_check, sleep_interval, mon_wake, last_ping,
                    shutting_down, stop_pc, stop_ev, now, preamble, free_ports, py, plugin, diag, http, hist >>

\* _monitor, lines 634-637: _sleep_interval, in ms
monitor_sleep_interval(to) ==
    IF to < SleepIntervalSec * MsPerSec THEN to ELSE SleepIntervalSec * MsPerSec

\* line 335: self._monitor.start(); the thread runs _monitor's lines 632-639
\* and enters its first sleep
MonitorStart ==
    /\ main_pc = "monitor_start"
    /\ mon_pc = "created"
    /\ timeout_count' = 0
    /\ last_check' = now
    /\ sleep_interval' = monitor_sleep_interval(timeout)
    /\ mon_wake' = now + monitor_sleep_interval(timeout)
    /\ mon_pc' = "sleep"
    /\ main_pc' = "join"
    /\ hist' = [hist EXCEPT !.mon_started = now]
    /\ UNCHANGED << args, meta, mode, config, logLevel, log, exc, server_stage,
                    port, releases, stdout, flushed, timeout, last_ping,
                    shutting_down, stop_pc, stop_ev, now, preamble, free_ports, py, plugin, diag, http >>

\* a start_plugin that returns without joining the watchdog thread
JoinAndExit_no_join ==
    /\ main_pc = "join"
    /\ main_pc' = "exited"
    /\ UNCHANGED << args, meta, mode, config, logLevel, log, exc, server_stage,
                    port, releases, stdout, flushed, timeout, mon_pc,
                    timeout_count, last_check, sleep_interval, mon_wake,
                    last_ping, shutting_down, stop_pc, stop_ev, now, preamble, free_ports, py, plugin, diag,
                    http, hist >>

\* lines 336-337: self._monitor.join(); sys.exit()
JoinAndExit ==
    /\ main_pc = "join"
    /\ mon_pc = "stopped"
    /\ main_pc' = "exited"
    /\ UNCHANGED << args, meta, mode, config, logLevel, log, exc, server_stage,
                    port, releases, stdout, flushed, timeout, mon_pc,
                    timeout_count, last_check, sleep_interval, mon_wake,
                    last_ping, shutting_down, stop_pc, stop_ev, now, preamble, free_ports, py, plugin, diag,
                    http, hist >>

\* the errno of HTTPServer's bind: 0 for success
BindOutcomes == {0, 13, 98, 99}

\* the value of errno before HTTPServer has been tried
NotBound == -1

\* a bind whose except clause swallows every OS error
StandaloneBind_swallows ==
    /\ main_pc = "http_bind"
    /\ \E errno \in BindOutcomes :
       /\ hist' = [hist EXCEPT !.bind_errno = errno]
       /\ IF errno = 0
          THEN /\ http' = "bound"
               /\ main_pc' = "http_write"
               /\ UNCHANGED << log, exc >>
          ELSE IF errno = 98
          THEN /\ log' = Emit(log, logLevel, LvlError, "Port already in use", 98)
               /\ main_pc' = "returned"
               /\ UNCHANGED << http, exc >>
          ELSE IF errno = 13
          THEN /\ log' = Emit(log, logLevel, LvlError,
                              "Port numbers below 1000 can be used only by privileged users", 13)
               /\ main_pc' = "returned"
               /\ UNCHANGED << http, exc >>
          ELSE /\ main_pc' = "returned"
               /\ UNCHANGED << http, log, exc >>
    /\ UNCHANGED << args, free_ports, py, plugin, diag, meta, mode, config, logLevel, server_stage, port,
                    releases, stdout, flushed, timeout, mon_pc, timeout_count,
                    last_check, sleep_interval, mon_wake, last_ping,
                    shutting_down, stop_pc, stop_ev, now, preamble >>

\* lines 340-350: HTTPServer(('', port), handler)
StandaloneBind ==
    /\ main_pc = "http_bind"
    /\ \E errno \in BindOutcomes :
       /\ hist' = [hist EXCEPT !.bind_errno = errno]
       /\ IF errno = 0
          THEN /\ http' = "bound"
               /\ main_pc' = "http_write"
               /\ UNCHANGED << log, exc >>
          ELSE IF errno = 98
          THEN /\ log' = Emit(log, logLevel, LvlError, "Port already in use", 98)
               /\ main_pc' = "returned"
               /\ UNCHANGED << http, exc >>
          ELSE IF errno = 13
          THEN /\ log' = Emit(log, logLevel, LvlError,
                              "Port numbers below 1000 can be used only by privileged users", 13)
               /\ main_pc' = "returned"
               /\ UNCHANGED << http, exc >>
          ELSE /\ main_pc' = "raised"
               /\ exc' = "OSError"
               /\ UNCHANGED << http, log >>
    /\ UNCHANGED << args, free_ports, py, plugin, diag, meta, mode, config, logLevel, server_stage, port,
                    releases, stdout, flushed, timeout, mon_pc, timeout_count,
                    last_check, sleep_interval, mon_wake, last_ping,
                    shutting_down, stop_pc, stop_ev, now, preamble >>

\* a stand-alone start that also starts the watchdog thread
StandaloneServe_with_watchdog ==
    /\ main_pc = "http_write"
    /\ stdout' = Append(stdout, Written("loaded", NoText))
    /\ flushed' = Len(stdout) + 1
    /\ main_pc' = "serving"
    /\ timeout_count' = 0
    /\ last_check' = now
    /\ sleep_interval' = monitor_sleep_interval(timeout)
    /\ mon_wake' = now + monitor_sleep_interval(timeout)
    /\ mon_pc' = "sleep"
    /\ hist' = [hist EXCEPT !.mon_started = now]
    /\ UNCHANGED << args, meta, mode, config, logLevel, log, exc, server_stage,
                    port, releases, timeout, last_ping, shutting_down, stop_pc,
                    stop_ev, now, preamble, free_ports, py, plugin, diag, http >>

\* lines 353-355: "Plugin loaded at ..." is written and flushed, serve_forever()
StandaloneServe ==
    /\ main_pc = "http_write"
    /\ stdout' = Append(stdout, Written("loaded", NoText))
    /\ flushed' = Len(stdout) + 1
    /\ main_pc' = "serving"
    /\ UNCHANGED << args, meta, mode, config, logLevel, log, exc, server_stage,
                    port, releases, timeout, mon_pc, timeout_count, last_check,
                    sleep_interval, mon_wake, last_ping, shutting_down, stop_pc,
                    stop_ev, now, preamble, free_ports, py, plugin, diag, http, hist >>

\* _StandaloneHandler.do_GET, lines 68-73, for the preamble the handler
\* class was made with
do_GET(p) ==
    [status |-> 200,
     content_type |-> "application/json; charset=utf-8",
     content_length |-> py_len(preamble_str(p)),
     body |-> encode_utf8(preamble_str(p))]

\* the paths requested
Paths == {"/", "/metrics"}

\* a GET request to the stand-alone HTTP server, for any path
HttpGet ==
    /\ main_pc = "serving"
    /\ hist.requests < MaxRequests
    /\ \E path \in Paths :
          hist' = [hist EXCEPT !.response = Some([path |-> path, reply |-> do_GET(preamble[1])]),
                               !.requests = @ + 1]
    /\ UNCHANGED << args, meta, mode, config, logLevel, log, main_pc, exc,
                    server_stage, port, releases, stdout, flushed, timeout,
                    mon_pc, timeout_count, last_check, sleep_interval, mon_wake,
                    last_ping, shutting_down, stop_pc, stop_ev, now, preamble, free_ports, py, plugin, diag,
                    http >>

\* lines 356-357: KeyboardInterrupt ends serve_forever; the socket is closed
KeyboardInterrupt ==
    /\ main_pc = "serving"
    /\ http' = "closed"
    /\ main_pc' = "returned"
    /\ UNCHANGED << args, free_ports, py, plugin, diag, meta, mode, config, logLevel, log, exc, server_stage,
                    port, releases, stdout, flushed, timeout, mon_pc,
                    timeout_count, last_check, sleep_interval, mon_wake,
                    last_ping, shutting_down, stop_pc, stop_ev, now, preamble, hist >>

(***************************************************************************)
(* Plugin._print_diagnostic, lines 488-581, and _parse_policy_namespaces,  *)
(* lines 583-606.                                                          *)
(***************************************************************************)
\* one rule of the config policy: the namespace path of its policy node
\* (policy[namespace].key), its key, and the rule's flags and default
Rule(ns, key, required, has_default, default) ==
    [ns |-> ns, key |-> key, required |-> required,
     has_default |-> has_default, default |-> default]

\* a metric returned by update_catalog: the values of its namespace elements
\* and the config it carries
Metric(namespace, cfg) == [namespace |-> namespace, config |-> cfg]

\* lines 596-599: the rules that have a default, in the policy's order
policy_defaults(policy) ==
    LET HasDefault(r) == r.has_default IN SelectSeq(policy, HasDefault)

\* a check of the required keys that lets a rule's default stand in for the
\* missing value
policy_missing_unless_default(policy, cfg) ==
    LET Missing(r) == r.required /\ ~r.has_default /\ r.key \notin DOMAIN cfg
        sel == SelectSeq(policy, Missing)
    IN  [i \in DOMAIN sel |-> sel[i].key]

\* lines 603-604: the keys of the required rules that self._config lacks
policy_missing(policy, cfg) ==
    LET Missing(r) == r.required /\ r.key \notin DOMAIN cfg
        sel == SelectSeq(policy, Missing)
    IN  [i \in DOMAIN sel |-> sel[i].key]

\* lines 547-552: ns[i] is compared with metric.namespace[i].value for every
\* i in range(len(ns)); indexing past the metric's namespace raises IndexError
RECURSIVE ns_match(_, _, _)
ns_match(ns, mns, i) ==
    IF i > Len(ns) THEN "match"
    ELSE IF i > Len(mns) THEN "IndexError"
    ELSE IF ns[i] # mns[i] THEN "differ"
    ELSE ns_match(ns, mns, i + 1)

\* a merge that applies a default whether or not the key is present
default_absent_ignored(key, cfg) == TRUE
\* line 555: default[0] not in metric_config
default_absent(key, cfg) == key \notin DOMAIN cfg

\* lines 546-556: the defaults from the j-th on, applied to metric_config
RECURSIVE apply_defaults(_, _, _, _)
apply_defaults(cfg, defaults, mns, j) ==
    IF j > Len(defaults) THEN [raised |-> "none", config |-> cfg]
    ELSE LET m == ns_match(defaults[j].ns, mns, 1) IN
         IF m = "IndexError" THEN [raised |-> "IndexError", config |-> cfg]
         ELSE IF m = "match" /\ default_absent(defaults[j].key, cfg)
         THEN apply_defaults((defaults[j].key :> defaults[j].default) @@ cfg,
                             defaults, mns, j + 1)
         ELSE apply_defaults(cfg, defaults, mns, j + 1)

\* lines 543-558: every metric from the i-th on gets a copy of self._config
\* with the matching defaults as its config; an IndexError ends the loop
RECURSIVE merge_metrics(_, _, _, _)
merge_metrics(metrics, cfg, defaults, i) ==
    IF i > Len(metrics) THEN [raised |-> "none", metrics |-> metrics, merged |-> i - 1]
    ELSE LET r == apply_defaults(cfg, defaults, metrics[i].namespace, 1) IN
         IF r.raised # "none"
         THEN [raised |-> r.raised, metrics |-> metrics, merged |-> i - 1]
         ELSE merge_metrics([metrics EXCEPT ![i].config = r.config], cfg, defaults, i + 1)

\* what _print_diagnostic has done so far
\* (runs of it, keys handed to LOG.error as missing, calls of the plugin's
\* update_catalog and collect, the metrics as the merge left them, the number
\* of metrics whose config the merge has assigned)
Diag(runs, reported, calls, metrics, merged) ==
    [runs |-> runs, reported |-> reported, calls |-> calls, metrics |-> metrics,
     merged |-> merged]

\* lines 359-363: the diagnostic report of a collector (_print_diagnostic),
\* or the notice that only collectors have one
Diagnostics ==
    /\ main_pc = "parsed"
    /\ mode = "diagnostics"
    /\ IF meta.type = "collector"
       THEN LET missing == policy_missing(plugin.policy, config.obj)
                defaults == policy_defaults(plugin.policy)
                mg == merge_metrics(plugin.catalog, config.obj, defaults, 1)
                head == << Written("runtime details", NoText),
                           Written("config policy", NoText) >>
            IN  IF missing # << >>
                THEN \* lines 520-525: an error per missing key, a hint, return
                     /\ stdout' = stdout \o head
                     /\ flushed' = Len(stdout) + 1
                     /\ log' = Emit(Emit(log, logLevel, LvlError,
                                         "required by plugin and not provided in config",
                                         Len(missing)),
                                    logLevel, LvlError, "You can provide config", 0)
                     /\ diag' = Diag(diag.runs + 1, missing, << >>, << >>, 0)
                     /\ main_pc' = "returned"
                     /\ exc' = exc
                ELSE IF mg.raised # "none"
                THEN \* lines 534-552: the catalog is printed, the merge raises
                     /\ stdout' = stdout \o head \o << Written("metric catalog", NoText) >>
                     /\ flushed' = Len(stdout) + 3
                     /\ log' = log
                     /\ diag' = Diag(diag.runs + 1, << >>, << "update_catalog" >>,
                                     mg.metrics, mg.merged)
                     /\ main_pc' = "raised"
                     /\ exc' = mg.raised
                ELSE \* lines 534-581: catalog, merge, collect, the closing text
                     /\ stdout' = stdout \o head
                                     \o << Written("metric catalog", NoText),
                                           Written("collected metrics", NoText),
                                           Written("diagnostic took", NoText) >>
                     /\ flushed' = Len(stdout) + 5
                     /\ log' = log
                     /\ diag' = Diag(diag.runs + 1, << >>,
                                     << "update_catalog", "collect" >>, mg.metrics,
                                     mg.merged)
                     /\ main_pc' = "returned"
                     /\ exc' = exc
       ELSE /\ stdout' = Append(stdout, Written("unsupported", NoText))
            /\ flushed' = Len(stdout) + 1
            /\ main_pc' = "returned"
            /\ UNCHANGED << log, diag, exc >>
    /\ UNCHANGED << args, meta, mode, config, logLevel, server_stage,
                    port, releases, timeout, mon_pc, timeout_count, last_check,
                    sleep_interval, mon_wake, last_ping, shutting_down, stop_pc,
                    stop_ev, now, preamble, free_ports, py, plugin, http, hist >>

(***************************************************************************)
(* The environment: the clock, the framework's RPC calls, the listener's   *)
(* own shutdown.                                                           *)
(***************************************************************************)
\* time.time() advances. The clock is followed while something reads it:
\* before start_plugin is called (Plugin.__init__ has read it) and while the
\* watchdog is watching; the start-up itself takes no time. A thread whose
\* sleep is over runs within MaxJitter ticks. It also advances while the
\* stand-alone HTTP server serves.
Tick ==
    /\ \/ main_pc = "start" /\ now < MaxStartDelay * TickMs
       \/ main_pc = "serving"
       \/ mon_pc \in {"sleep", "check", "elif"}
             /\ now + TickMs <= mon_wake + MaxJitter * TickMs
    /\ now < MaxTime * TickMs
    /\ now' = now + TickMs
    /\ UNCHANGED << args, meta, mode, config, logLevel, log, main_pc, exc,
                    server_stage, port, releases, stdout, flushed, timeout,
                    mon_pc, timeout_count, last_check, sleep_interval, mon_wake,
                    last_ping, shutting_down, stop_pc, stop_ev, preamble, free_ports, py, plugin, diag, http, hist >>

\* a ping handler that also clears the watchdog's miss counter
Ping_clears_count ==
    /\ Serving
    /\ last_ping' = now
    /\ timeout_count' = 0
    /\ hist' = [hist EXCEPT !.served_after_return = @ \/ SomeStopReturned]
    /\ UNCHANGED << args, meta, mode, config, logLevel, log, main_pc, exc,
                    server_stage, port, releases, stdout, flushed, timeout,
                    mon_pc, last_check, sleep_interval, mon_wake,
                    shutting_down, stop_pc, stop_ev, now, preamble, free_ports, py, plugin, diag, http >>

\* Plugin.ping, line 299, called by the listener for the framework's ping
Ping ==
    /\ Serving
    /\ last_ping' = now
    /\ hist' = [hist EXCEPT !.served_after_return = @ \/ SomeStopReturned]
    /\ UNCHANGED << args, meta, mode, config, logLevel, log, main_pc, exc,
                    server_stage, port, releases, stdout, flushed, timeout,
                    mon_pc, timeout_count, last_check, sleep_interval, mon_wake,
                    shutting_down, stop_pc, stop_ev, now, preamble, free_ports, py, plugin, diag, http >>

\* a stop_plugin that leaves the flag as it was constructed
stop_plugin_flag_unset == FALSE
\* Plugin.stop_plugin, line 304: the value given to self._shutting_down
stop_plugin_flag == TRUE

\* an external stop request: a Kill call serviced by the listener invokes
\* stop_plugin on a worker thread, which runs lines 303-304
KillRequest(c) ==
    /\ c \in Callers \ {"monitor"}
    /\ Serving
    /\ stop_pc[c] = "idle"
    /\ log' = Emit(log, logLevel, LvlDebug, "plugin stopping", 0)
    /\ shutting_down' = stop_plugin_flag
    /\ stop_pc' = [stop_pc EXCEPT ![c] = "stop"]
    /\ hist' = [hist EXCEPT !.served_after_return = @ \/ SomeStopReturned]
    /\ UNCHANGED << args, meta, mode, config, logLevel, main_pc, exc,
                    server_stage, port, releases, stdout, flushed, timeout,
                    mon_pc, timeout_count, last_check, sleep_interval, mon_wake,
                    last_ping, stop_ev, now, preamble, free_ports, py, plugin, diag, http >>

\* the listener finishes shutting down: every pending stop event is set
ServerShutdownComplete ==
    /\ ProcessAlive
    /\ server_stage = "grace"
    /\ server_stage' = "stopped"
    /\ stop_ev' = [c \in Callers |-> IF stop_ev[c] = "pending" THEN "set" ELSE stop_ev[c]]
    /\ UNCHANGED << args, meta, mode, config, logLevel, log, main_pc, exc,
                    port, releases, stdout, flushed, timeout, mon_pc,
                    timeout_count, last_check, sleep_interval, mon_wake,
                    last_ping, shutting_down, stop_pc, now, preamble, free_ports, py, plugin, diag, http, hist >>

(***************************************************************************)
(* Plugin.stop_plugin, lines 301-308, run by caller c.                     *)
(***************************************************************************)
\* line 305: _stop_event = self.server.stop(0)
StopServer(c) ==
    /\ ProcessAlive
    /\ stop_pc[c] = "stop"
    /\ server_stage' = server_stop_stage(server_stage)
    /\ releases' = server_stop_releases(server_stage, releases)
    /\ stop_ev' = [stop_ev EXCEPT ![c] = server_stop_event(server_stage)]
    /\ stop_pc' = [stop_pc EXCEPT ![c] = "wait"]
    /\ UNCHANGED << args, meta, mode, config, logLevel, log, main_pc, exc, port,
                    stdout, flushed, timeout, mon_pc, timeout_count, last_check,
                    sleep_interval, mon_wake, last_ping, shutting_down, now,
                    preamble, free_ports, py, plugin, diag, http, hist >>

\* a stop_plugin that does not wait for the event
stop_wait_over_at_once(ev) == TRUE
\* lines 306-307: the loop ends when the event is set
stop_wait_over(ev) == ev = "set"

\* lines 306-308: the polling loop ends and stop_plugin returns
StopReturn(c) ==
    /\ ProcessAlive
    /\ stop_pc[c] = "wait"
    /\ stop_wait_over(stop_ev[c])
    /\ log' = Emit(log, logLevel, LvlDebug, "plugin stopped", 0)
    /\ stop_pc' = [stop_pc EXCEPT ![c] = "returned"]
    /\ UNCHANGED << args, meta, mode, config, logLevel, main_pc, exc,
                    server_stage, port, releases, stdout, flushed, timeout,
                    mon_pc, timeout_count, last_check, sleep_interval, mon_wake,
                    last_ping, shutting_down, stop_ev, now, preamble, free_ports, py, plugin, diag, http, hist >>

(***************************************************************************)
(* The watchdog thread: _monitor, lines 626-654.                           *)
(***************************************************************************)
\* line 644: a ping was missed during the last timeout duration
\* a missed-ping test that is content with either of the two times
monitor_missed_either(t, lc, lp, to) == (t - lc) > to \/ (t - lp) > to
monitor_missed(t, lc, lp, to) == (t - lc) > to /\ (t - lp) > to

\* a comparison that leaves out a ping exactly one timeout old
monitor_pinged_strict(t, lp, to) == (t - lp) < to
\* line 653: a ping arrived within the timeout
monitor_pinged(t, lp, to) == (t - lp) <= to

\* a watchdog that tolerates one more miss
monitor_gives_up_late(count) == count >= MaxMissed + 1
\* line 650: enough pings were missed to shut down
monitor_gives_up(count) == count >= MaxMissed

\* a watchdog that wakes without testing the shutting-down flag
MonitorWake_ignores_flag ==
    /\ ProcessAlive
    /\ mon_pc = "sleep"
    /\ now >= mon_wake
    /\ mon_pc' = "check"
    /\ hist' = [hist EXCEPT !.reset_from = -1]
    /\ UNCHANGED << args, meta, mode, config, logLevel, log, main_pc, exc,
                    server_stage, port, releases, stdout, flushed, timeout,
                    timeout_count, last_check, sleep_interval, mon_wake,
                    last_ping, shutting_down, stop_pc, stop_ev, now, preamble, free_ports, py, plugin, diag,
                    http >>

\* lines 639-642: the sleep ends; return if stop_plugin has been called
MonitorWake ==
    /\ ProcessAlive
    /\ mon_pc = "sleep"
    /\ now >= mon_wake
    /\ mon_pc' = IF shutting_down THEN "stopped" ELSE "check"
    /\ hist' = [hist EXCEPT !.reset_from = -1]
    /\ UNCHANGED << args, meta, mode, config, logLevel, log, main_pc, exc,
                    server_stage, port, releases, stdout, flushed, timeout,
                    timeout_count, last_check, sleep_interval, mon_wake,
                    last_ping, shutting_down, stop_pc, stop_ev, now, preamble, free_ports, py, plugin, diag,
                    http >>

\* lines 644-652: the missed-ping branch; the third miss calls stop_plugin,
\* which runs its lines 303-304
MonitorCheck ==
    /\ ProcessAlive
    /\ mon_pc = "check"
    /\ IF monitor_missed(now, last_check, last_ping, timeout)
       THEN /\ last_check' = now
            /\ timeout_count' = timeout_count + 1
            /\ IF monitor_gives_up(timeout_count + 1)
               THEN /\ mon_pc' = "stop_plugin"
                    /\ log' = Emit(Emit(log, logLevel, LvlWarning,
                                        "Missed ping health check", timeout_count + 1),
                                   logLevel, LvlDebug, "plugin stopping", 0)
                    /\ shutting_down' = stop_plugin_flag
                    /\ stop_pc' = [stop_pc EXCEPT !["monitor"] = "stop"]
                    /\ hist' = [hist EXCEPT !.mon_called_stop = TRUE]
                    /\ UNCHANGED mon_wake
               ELSE /\ mon_pc' = "sleep"
                    /\ log' = Emit(log, logLevel, LvlWarning,
                                   "Missed ping health check", timeout_count + 1)
                    /\ mon_wake' = now + sleep_interval
                    /\ UNCHANGED << stop_pc, hist, shutting_down >>
       ELSE /\ mon_pc' = "elif"
            /\ UNCHANGED << last_check, timeout_count, log, stop_pc, hist,
                            mon_wake, shutting_down >>
    /\ UNCHANGED << args, meta, mode, config, logLevel, main_pc, exc,
                    server_stage, port, releases, stdout, flushed, timeout,
                    sleep_interval, last_ping, stop_ev, now, preamble, free_ports, py, plugin, diag, http >>

\* lines 653-654: a ping within the timeout resets the count; then sleep again
MonitorElif ==
    /\ ProcessAlive
    /\ mon_pc = "elif"
    /\ IF monitor_pinged(now, last_ping, timeout)
       THEN /\ timeout_count' = 0
            /\ hist' = [hist EXCEPT !.reset_from = timeout_count]
       ELSE UNCHANGED << timeout_count, hist >>
    /\ mon_pc' = "sleep"
    /\ mon_wake' = now + sleep_interval
    /\ UNCHANGED << args, meta, mode, config, logLevel, log, main_pc, exc,
                    server_stage, port, releases, stdout, flushed, timeout,
                    last_check, sleep_interval, last_ping, shutting_down,
                    stop_pc, stop_ev, now, preamble, free_ports, py, plugin, diag, http >>

\* lines 651-652: stop_plugin() has returned; return
MonitorReturn ==
    /\ ProcessAlive
    /\ mon_pc = "stop_plugin"
    /\ stop_pc["monitor"] = "returned"
    /\ mon_pc' = "stopped"
    /\ UNCHANGED << args, meta, mode, config, logLevel, log, main_pc, exc,
                    server_stage, port, releases, stdout, flushed, timeout,
                    timeout_count, last_check, sleep_interval, mon_wake,
                    last_ping, shutting_down, stop_pc, stop_ev, now, preamble, free_ports, py, plugin, diag,
                    http, hist >>

(***************************************************************************)
(* Inputs: configuration strings, command lines and Metas.                 *)
(***************************************************************************)
\* "{bad": not JSON
CfgBad == << LB, TBad >>
\* "{}"
CfgEmpty == << LB, RB >>
\* '{"LogLevel": 3': truncated, not JSON
CfgTruncated == << LB, TStr("LogLevel"), COLON, TNum(3) >>
\* "7": JSON, but not an object
CfgNumber == << TNum(7) >>
\* '{"LogLevel": n}'
CfgLogLevel(n) == << LB, TStr("LogLevel"), COLON, TNum(n), RB >>
\* '{"PingTimeoutDuration": ms}'
CfgPing(ms) == << LB, TStr("PingTimeoutDuration"), COLON, TNum(ms), RB >>
\* '{"LogLevel": n, "PingTimeoutDuration": ms}'
CfgBoth(n, ms) ==
    << LB, TStr("LogLevel"), COLON, TNum(n), COMMA,
       TStr("PingTimeoutDuration"), COLON, TNum(ms), RB >>

LogLevelsTried == {-1} \cup (0 .. MaxLogLevelTried)
\* PingTimeoutDuration values tried for the start-up, in ms
PingTimeoutsTried == {500, 1000, 1500}
\* PingTimeoutDuration values tried for the whole life cycle: whole ticks
LifeTimeouts == {1000, 2000}

ConfigStrings ==
    {CfgBad, CfgEmpty, CfgTruncated, CfgNumber}
        \cup {CfgLogLevel(n) : n \in LogLevelsTried}
        \cup {CfgPing(ms) : ms \in PingTimeoutsTried}
        \cup {CfgBoth(n, 1000) : n \in {0, 2, MaxLogLevelTried}}

Args(framework_config, cfg, stand_alone, log_level) ==
    [framework_config |-> framework_config, config |-> cfg,
     stand_alone |-> stand_alone, log_level |-> log_level]

\* every command line tried for the start-up
AllArgs ==
    {Args(fc, c, sa, ll) :
        fc \in {None} \cup {Some(x) : x \in ConfigStrings},
        c \in {None} \cup {Some(x) : x \in {CfgBad, CfgEmpty, CfgLogLevel(0), CfgLogLevel(2), CfgPing(500)}},
        sa \in BOOLEAN,
        ll \in {<< d >> : d \in 0 .. MaxLogLevelTried}}

\* the command lines tried for the whole life cycle
LifeArgs ==
    {Args(Some(CfgPing(ms)), None, FALSE, << DefaultLogLevelFlag >>) : ms \in LifeTimeouts}
        \cup {Args(None, Some(CfgPing(1000)), TRUE, << DefaultLogLevelFlag >>),
              Args(None, Some(CfgEmpty), FALSE, << DefaultLogLevelFlag >>)}

AllMetas ==
    {Meta(t, << "mock" >>, v, 5, rs, ex, ttl, rt, 1, un) :
        t \in {"collector", "stream_collector"}, v \in {1, 12},
        rs \in {"lru", "config"}, ex \in BOOLEAN, ttl \in {None, Some(500)},
        rt \in {"grpc", "grpc_stream"}, un \in {TRUE}}
    \cup {Meta(t, << "caf", EAcute >>, 1, 5, "sticky", FALSE, None, rt, 1, FALSE) :
        t \in DOMAIN PluginTypeValue, rt \in DOMAIN RPCTypeValue}

LifeMetas == {Meta("collector", << "caf", EAcute >>, 1, 5, "lru", FALSE, None, "grpc", 1, TRUE)}

\* a --config value with one key of the plugin's own
CfgKey(k, n) == << LB, TStr(k), COLON, TNum(n), RB >>

\* the command lines of the diagnostic runs: no --config, or one that names
\* a key of the policy, next to one start in each of the other modes
DiagArgs ==
    {Args(None, c, FALSE, << 3 >>) :
        c \in {None} \cup {Some(x) : x \in {CfgEmpty, CfgKey("x", 1), CfgKey("threshold", 80),
                                             CfgKey("w", 2), CfgLogLevel(5)}}}
    \cup {Args(None, Some(CfgEmpty), TRUE, << 3 >>),
          Args(Some(CfgEmpty), None, FALSE, << 3 >>)}

DiagMetas ==
    {Meta(t, << "mock" >>, 1, 5, "lru", FALSE, None, "grpc", 1, TRUE) :
        t \in {"collector", "processor"}}

\* the rules a config policy is made of: one rule for a namespace and key
RuleSet ==
    {Rule(<< "a", "b" >>, "x", FALSE, TRUE, 7),
     Rule(<< "a" >>, "x", FALSE, TRUE, 9),
     Rule(<< "a", "c" >>, "y", FALSE, TRUE, 8),
     Rule(<< "a", "b", "c" >>, "z", FALSE, TRUE, 5),
     Rule(<< "a", "b" >>, "w", TRUE, TRUE, 4),
     Rule(<< "cpu" >>, "threshold", TRUE, FALSE, 0)}

\* the metrics a catalog is made of
MetricSet ==
    {Metric(<< "a", "b" >>, EmptyObj),
     Metric(<< "a", "b" >>, "x" :> 1),
     Metric(<< "a", "c" >>, EmptyObj),
     Metric(<< "a" >>, EmptyObj),
     Metric(<< "cpu" >>, EmptyObj)}

SeqsUpTo(S, n) == UNION {[1 .. k -> S] : k \in 0 .. n}

\* a policy lists a rule once
NoRepeat(seq) == \A i, j \in DOMAIN seq : i # j => seq[i] # seq[j]

Plugins(policies, catalogs) ==
    {[policy |-> pol, catalog |-> cat] : pol \in policies, cat \in catalogs}

\* every plugin tried for the diagnostic run
AllPlugins ==
    Plugins({pol \in SeqsUpTo(RuleSet, MaxRules) : NoRepeat(pol)},
            SeqsUpTo(MetricSet, MaxMetrics))

\* the plugin followed through the life cycle and the start-up
LifePlugins ==
    Plugins({<< Rule(<< "a", "b" >>, "x", FALSE, TRUE, 7) >>},
            {<< Metric(<< "a", "b" >>, EmptyObj) >>})

(***************************************************************************)
(* Plugin.__init__, lines 265-276, and the specifications.                 *)
(***************************************************************************)
InitWith(argSet, metaSet, portSets, pySet, pluginSet) ==
    /\ args \in argSet
    /\ py \in pySet
    /\ plugin \in pluginSet
    /\ diag = Diag(0, << >>, << >>, << >>, 0)
    /\ meta \in metaSet
    /\ free_ports \in portSets
    /\ mode = "normal"
    /\ config = PyDict(EmptyObj)
    /\ logLevel = NotSet
    /\ log = {}
    /\ main_pc = "start"
    /\ exc = "none"
    /\ server_stage = "new"
    /\ port = 0
    /\ releases = 0
    /\ stdout = << >>
    /\ flushed = 0
    /\ timeout = 0
    /\ mon_pc = "none"
    /\ timeout_count = 0
    /\ last_check = 0
    /\ sleep_interval = 0
    /\ mon_wake = 0
    /\ last_ping = 0
    /\ shutting_down = FALSE
    /\ stop_pc = [c \in Callers |-> "idle"]
    /\ stop_ev = [c \in Callers |-> "none"]
    /\ now = 0
    /\ preamble = None
    /\ http = "none"
    /\ hist = [mon_called_stop |-> FALSE, mon_started |-> 0, reset_from |-> -1,
               served_after_return |-> FALSE, response |-> None, requests |-> 0,
               bind_errno |-> NotBound]

\* the life cycle is followed with whole-second timeouts, for which the two
\* interpreters compute the same watchdog timeout
Init == InitWith(LifeArgs, LifeMetas, {{32768}}, {3}, LifePlugins)

StartUp ==
    \/ ParseArgs
    \/ GeneratePreambleAndServe
    \/ WritePreamble
    \/ FlushPreamble
    \/ MonitorStart
    \/ StandaloneBind
    \/ StandaloneServe
    \/ Diagnostics

StopPlugin == \E c \in Callers : StopServer(c) \/ StopReturn(c)

Monitor == MonitorWake \/ MonitorCheck \/ MonitorElif \/ MonitorReturn

Next ==
    \/ StartUp
    \/ JoinAndExit
    \/ HttpGet
    \/ KeyboardInterrupt
    \/ Tick
    \/ Ping
    \/ \E c \in Callers : KillRequest(c)
    \/ ServerShutdownComplete
    \/ StopPlugin
    \/ Monitor

Spec == Init /\ [][Next]_vars

\* the start-up alone, over every command line and Meta tried
InitArgs == InitWith(AllArgs, AllMetas, {{32768, 60999}}, PyVersions, LifePlugins)
SpecArgs == InitArgs /\ [][StartUp]_vars

\* the life cycle with the scheduling the threads get: the clock advances, a
\* thread that can run does run, and the listener completes a shutdown it began
\* the start-up of every plugin tried for the diagnostic run
InitDiag == InitWith(DiagArgs, DiagMetas, {{32768}}, {3}, AllPlugins)

SpecDiag == InitDiag /\ [][StartUp]_vars

Fairness ==
    /\ WF_vars(Tick)
    /\ WF_vars(Monitor)
    /\ \A c \in Callers : WF_vars(StopServer(c)) /\ WF_vars(StopReturn(c))
    /\ WF_vars(ServerShutdownComplete)
    /\ WF_vars(JoinAndExit)
FairSpec == Spec /\ Fairness

(***************************************************************************)
(* Properties.                                                             *)
(***************************************************************************)
Watching == mon_pc \in {"sleep", "check", "elif"}

\* the longest the watchdog goes on watching without a ping: three windows,
\* each a timeout plus the wait for the check that notices it (a sleep, late
\* by the jitter at both ends)
SilenceLimit == MaxMissed * (timeout + sleep_interval + 2 * MaxJitter * TickMs)

\* C1: a watchdog that is watching has seen a ping, or was started, less than
\* three (timeout + check) windows ago; on the third consecutive miss it
\* invokes stop_plugin; and once it has returned from that call the listener
\* is stopped, its resources released exactly once.
C1_Safety ==
    /\ (Watching /\ ~shutting_down)
          => (now - hist.mon_started <= SilenceLimit \/ now - last_ping <= SilenceLimit)
    /\ Watching => timeout_count < MaxMissed
    /\ mon_pc = "stop_plugin" => timeout_count = MaxMissed /\ hist.mon_called_stop
    /\ (mon_pc = "stopped" /\ hist.mon_called_stop)
          => /\ stop_pc["monitor"] = "returned"
             /\ server_stage = "stopped"
             /\ releases = 1
    /\ releases <= 1

\* C1: ... and the call the watchdog makes does return, so that it reaches Stopped.
C1_WatchdogShutsDown ==
    /\ []C1_Safety
    /\ (mon_pc = "stop_plugin") ~> (mon_pc = "stopped" /\ server_stage = "stopped")

C1_Witness ==
    /\ mon_pc = "stopped"
    /\ hist.mon_called_stop
    /\ stop_pc["kill"] = "idle"
    /\ timeout = 2000
    /\ server_stage = "stopped"
    /\ releases = 1

\* C2: when the watchdog's check finds the last ping no older than the
\* timeout, it does not count a miss, and the comparison of line 653 sets the
\* miss counter to 0 whatever it was (0, 1 or 2).
C2_PingResets ==
    [][/\ (mon_pc = "check" /\ now - last_ping <= timeout)
            => (mon_pc' \in {"check", "elif"} /\ timeout_count' = timeout_count)
       /\ (mon_pc = "elif" /\ mon_pc' # "elif" /\ now - last_ping <= timeout)
            => timeout_count' = 0]_vars

C2_Witness ==
    /\ hist.reset_from = 2
    /\ timeout_count = 0
    /\ mon_pc = "sleep"

\* C3 (state part): whoever calls stop_plugin, and however often, the
\* listener's resources are released at most once; a caller that waits for
\* its stop event waits for a shutdown that is under way; and a caller that
\* has returned leaves the flag set and the listener stopped.
C3_Safety ==
    /\ releases <= 1
    /\ \A c \in Callers :
          /\ stop_pc[c] # "idle" => shutting_down
          /\ stop_pc[c] \in {"wait", "returned"} => stop_ev[c] \in {"pending", "set"}
          /\ (stop_pc[c] = "wait" /\ stop_ev[c] = "pending") => server_stage = "grace"
          /\ stop_pc[c] = "returned"
                => (shutting_down /\ server_stage = "stopped" /\ releases = 1)

\* C3: stop_plugin is idempotent: the state part always holds, and every
\* invocation, by the watchdog or by an external request, returns.
C3_Idempotent ==
    /\ []C3_Safety
    /\ \A c \in Callers :
          (stop_pc[c] = "stop" /\ ProcessAlive) ~> (stop_pc[c] = "returned" \/ ~ProcessAlive)

C3_Witness ==
    /\ stop_pc["monitor"] = "returned"
    /\ stop_pc["kill"] = "returned"
    /\ releases = 1
    /\ shutting_down

\* C4: a caller of stop_plugin has returned only when its stop event is set
\* and the listener's shutdown is complete, and no RPC call (ping or kill) is
\* serviced once some call of stop_plugin has returned.
C4_StopBlocks ==
    /\ \A c \in Callers :
          stop_pc[c] = "returned" => (stop_ev[c] = "set" /\ server_stage = "stopped")
    /\ SomeStopReturned => ~Serving
    /\ ~hist.served_after_return

C4_Witness ==
    /\ stop_pc["kill"] = "returned"
    /\ stop_pc["monitor"] = "idle"
    /\ stop_ev["kill"] = "set"
    /\ last_ping > 0

\* C5: in normal mode standard output never holds more than one write; that
\* write is the preamble followed by one newline, made once the listener has
\* been started on the port it names; and the watchdog is started, and the
\* main thread blocks, only after that write has been made and flushed.
C5_OnePreambleLine ==
    mode = "normal" =>
        /\ Len(stdout) <= 1
        /\ flushed <= Len(stdout)
        /\ \A i \in DOMAIN stdout :
              /\ stdout[i].kind = "preamble"
              /\ stdout[i].text = generate_preamble(meta, port)
              /\ stdout[i].text.tail = << "\n" >>
              /\ server_stage # "new"
              /\ port \in free_ports
        /\ (mon_pc \notin {"none", "created"} \/ main_pc \in {"join", "exited"})
              => (Len(stdout) = 1 /\ flushed = 1)

C5_Witness ==
    /\ mode = "normal"
    /\ main_pc = "exited"
    /\ Len(stdout) = 1
    /\ flushed = 1
    /\ stdout[1].text.tail = << "\n" >>

(***************************************************************************)
(* Reading the preamble back, as the framework's json decoder does.        *)
(***************************************************************************)
dec_int(j) == j.n
dec_bool(j) == j.n = 1
dec_str(j) == j.s
dec_opt_int(j) == IF j.t = "null" THEN None ELSE Some(j.n)
\* the member of an enumeration that has the decoded value
dec_enum(values, j) == CHOOSE m \in DOMAIN values : values[m] = j.n
dec_digit(c) == CHOOSE d \in 0 .. 9 : DigitChar[d + 1] = c
\* "host:port" split at the colon; the port read as a decimal number
dec_address(a) ==
    [host |-> a[1], sep |-> a[2],
     port |-> py_int([i \in 1 .. (Len(a) - 2) |-> dec_digit(a[i + 2])])]
dec_meta(d) ==
    Meta(dec_enum(PluginTypeValue, d.Type), dec_str(d.Name), dec_int(d.Version),
         dec_int(d.ConcurrencyCount), dec_enum(RoutingStrategyValue, d.RoutingStrategy),
         dec_bool(d.Exclusive), dec_opt_int(d.CacheTTL),
         dec_enum(RPCTypeValue, d.RPCType), dec_int(d.RPCVersion), dec_bool(d.Unsecure))
\* the JSON types of the identity fields
meta_types(d) ==
    << d.Type.t, d.Name.t, d.Version.t, d.ConcurrencyCount.t, d.RoutingStrategy.t,
       d.Exclusive.t, d.RPCType.t, d.RPCVersion.t, d.Unsecure.t >>

\* C6: once the preamble is built, decoding its document gives back every
\* identity field of the Meta it was built from (the enumerations through
\* their integer values), and its ListenAddress is 127.0.0.1 and the port the
\* listener was bound to.
C6_RoundTrip ==
    preamble # None =>
        LET d == preamble[1].doc
            la == dec_address(dec_str(d.ListenAddress))
        IN  /\ meta_types(d.Meta) = << "int", "str", "int", "int", "int",
                                       "bool", "int", "int", "bool" >>
            /\ d.Meta.CacheTTL.t \in {"null", "int"}
            /\ dec_meta(d.Meta) = meta
            /\ dec_enum(PluginTypeValue, d.Type) = meta.type
            /\ d.ListenAddress.t = "str"
            /\ la.host = "127.0.0.1" /\ la.sep = ":"
            /\ la.port = port
            /\ port \in free_ports
            /\ server_stage # "new"

C6_Witness ==
    /\ preamble # None
    /\ meta.rpc_type = "grpc_stream"
    /\ meta.routing_strategy = "config"
    /\ meta.cache_ttl = Some(500)
    /\ meta.exclusive
    /\ port = 60999

\* the mode the precedence rule gives a command line
precedence(a) ==
    IF a.framework_config # None THEN "normal"
    ELSE IF a.stand_alone THEN "standalone"
    ELSE "diagnostics"

\* C7: after _parse_args the mode is the one the precedence rule gives
\* (framework configuration, then stand-alone flag, then diagnostics), a
\* framework configuration string is the config source, and no later step
\* changes the mode.
C7_ModePrecedence ==
    /\ [](main_pc # "start"
            => /\ mode = precedence(args)
               /\ mode \in PluginModes
               /\ args.framework_config # None => args.config = args.framework_config)
    /\ [][main_pc # "start" => mode' = mode]_vars

C7_Witness ==
    /\ main_pc = "join"
    /\ args.framework_config # None
    /\ args.stand_alone
    /\ mode = "normal"

\* the config source of a parsed command line is not valid JSON
malformed_source == args.config # None /\ json_loads(args.config[1]).err

\* C8: with a config source that is not valid JSON, _parse_args completes
\* (the watchdog thread is created, nothing is raised by it) with an empty
\* configuration and a logged warning, the logger at warn, the ping timeout
\* at its default, and the mode as the command line selects it.
C8_MalformedConfig ==
    (main_pc # "start" /\ malformed_source) =>
        /\ config = PyDict(EmptyObj)
        /\ LogRecord(LvlWarning, "Invalid config provided", 0) \in log
        /\ exc # "TypeError"
        /\ mon_pc # "none"
        /\ logLevel = WarnLevel
        /\ timeout = DefaultTimeoutSec * MsPerSec
        /\ mode = precedence(args)
        /\ main_pc = "raised" => mode = "standalone"

C8_Witness ==
    /\ main_pc = "join"
    /\ args.config = Some(CfgBad)
    /\ config = PyDict(EmptyObj)
    /\ mon_pc = "sleep"

C10_AlwaysLogLevel ==
    (main_pc # "start" /\ exc # "TypeError") =>
        /\ config.kind = "dict"
        /\ "LogLevel" \in DOMAIN config.obj
        /\ config.obj["LogLevel"] \in 1 .. 5

\* C10: after _parse_args has completed, the configuration holds a LogLevel
\* exactly when no config string was given (it is then the integer of the
\* command-line log level, whatever its value) or when the config JSON object
\* has that key itself (kept as given); without it the logger is at warn.
C10_LogLevelAsGiven ==
    (main_pc # "start" /\ exc # "TypeError") =>
        /\ config.kind = "dict"
        /\ args.config = None
              => config = PyDict("LogLevel" :> py_int(args.log_level))
        /\ (args.config # None /\ malformed_source) => config = PyDict(EmptyObj)
        /\ (args.config # None /\ ~malformed_source)
              => config = json_loads(args.config[1]).val
        /\ "LogLevel" \notin DOMAIN config.obj => logLevel = WarnLevel

C10_Witness ==
    /\ main_pc = "parsed"
    /\ args.config = Some(CfgEmpty)
    /\ config = PyDict(EmptyObj)
    /\ logLevel = WarnLevel

\* C11: once _parse_args has created the watchdog thread, its timeout is the
\* configuration's PingTimeoutDuration (milliseconds) expressed in seconds, or
\* 5 seconds without one; and once the watchdog runs, its check interval is
\* the smaller of one second and the timeout.
C11_TimeoutInSeconds ==
    /\ mon_pc # "none"
          => timeout = IF "PingTimeoutDuration" \in DOMAIN config.obj
                       THEN config.obj["PingTimeoutDuration"]
                       ELSE DefaultTimeoutSec * MsPerSec
    /\ mon_pc \notin {"none", "created"}
          => sleep_interval = IF timeout < SleepIntervalSec * MsPerSec
                              THEN timeout ELSE SleepIntervalSec * MsPerSec

C11_Witness ==
    /\ py = 2
    /\ mon_pc = "sleep"
    /\ "PingTimeoutDuration" \in DOMAIN config.obj
    /\ config.obj["PingTimeoutDuration"] = 1500
    /\ timeout = 1000

WatchdogRunning == mon_pc \in {"sleep", "check", "elif", "stop_plugin"}

\* C12 as stated: in normal and in stand-alone mode alike, once the main
\* thread has started the listener and blocks (joining the watchdog, or
\* serving HTTP), the watchdog is running or has stopped.
C12_WatchdogEverywhere ==
    main_pc \in {"join", "serving"} => (WatchdogRunning \/ mon_pc = "stopped")

\* C12: the watchdog runs in normal mode only. There, once the main thread
\* blocks, the watchdog is running and stays so until it is Stopped. In the
\* other modes the thread _parse_args created is never started: it counts no
\* miss and never calls stop_plugin, and the listener of a stand-alone plugin
\* leaves the started stage only through an external stop request.
C12_WatchdogNormalOnly ==
    /\ [](/\ (mode = "normal" /\ main_pc \in {"join", "exited"})
                => (WatchdogRunning \/ mon_pc = "stopped")
          /\ (main_pc # "start" /\ mode # "normal")
                => /\ mon_pc \in {"none", "created"}
                   /\ timeout_count = 0
                   /\ ~hist.mon_called_stop
                   /\ stop_pc["monitor"] = "idle"
                   /\ server_stage \in {"grace", "stopped"} => stop_pc["kill"] # "idle")
    /\ [][WatchdogRunning => (mon_pc' = "stopped" \/ WatchdogRunning')]_vars

\* a stand-alone plugin, serving, that has had no ping for longer than the
\* watchdog would allow, with its watchdog thread created and not started
C12_Witness ==
    /\ mode = "standalone"
    /\ main_pc = "serving"
    /\ server_stage = "started"
    /\ mon_pc = "created"
    /\ timeout = 1000
    /\ now - last_ping > MaxMissed * (timeout + (1 + 2 * MaxJitter) * TickMs)

Range(seq) == {seq[i] : i \in DOMAIN seq}

\* the keys the config policy requires and EffectiveConfig lacks
RequiredMissing ==
    {plugin.policy[i].key :
        i \in {j \in DOMAIN plugin.policy :
                  /\ plugin.policy[j].required
                  /\ plugin.policy[j].key \notin DOMAIN config.obj}}

\* C14: after a diagnostic run of a collector, if the policy requires a key
\* that EffectiveConfig lacks, every such key has been handed to LOG.error
\* (and the record is in the log unless the log level chosen with LogLevel
\* suppresses errors), neither update_catalog nor collect has been called and
\* start_plugin has returned without an exception; if no required key is
\* missing, nothing is reported as missing and update_catalog is the first
\* call, collect coming only after it.
C14_MissingRequiredAborts ==
    diag.runs > 0 =>
        IF RequiredMissing # {}
        THEN /\ Range(diag.reported) = RequiredMissing
             /\ LvlError >= EffectiveLevel(logLevel) =>
                    \E rec \in log :
                        /\ rec.sev = LvlError
                        /\ rec.msg = "required by plugin and not provided in config"
             /\ diag.calls = << >>
             /\ main_pc = "returned"
             /\ exc = "none"
        ELSE /\ diag.reported = << >>
             /\ diag.calls \in {<< "update_catalog" >>, << "update_catalog", "collect" >>}

C14_Witness ==
    /\ diag.runs = 1
    /\ Range(diag.reported) = {"threshold", "w"}
    /\ "x" \in DOMAIN config.obj
    /\ main_pc = "returned"

\* the diagnostic run got past the check of the required keys
MergeRan == diag.runs > 0 /\ RequiredMissing = {}

\* the namespace-path and the metric's namespace differ at some position
DiffersAt(ns, mns) ==
    \E p \in DOMAIN ns \cap DOMAIN mns : ns[p] # mns[p]

\* C15: after the default-merge of a diagnostic run, for every default of
\* the policy and every metric of the catalog: if the metric's namespace
\* equals the namespace-path and the key was not in the metric's
\* configuration, the merge has completed and the metric's configuration maps
\* the key to the default's value; if the namespace differs at some position
\* and no other rule has the key, the metric's configuration lacks the key.
C15_DefaultMerged ==
    MergeRan =>
        \A j \in DOMAIN plugin.policy : \A i \in DOMAIN plugin.catalog :
            LET d == plugin.policy[j]
                before == plugin.catalog[i]
                after == diag.metrics[i]
            IN  (d.has_default /\ d.key \notin DOMAIN config.obj) =>
                    /\ d.ns = before.namespace =>
                            /\ exc = "none"
                            /\ d.key \in DOMAIN after.config
                            /\ after.config[d.key] = d.default
                    /\ ( /\ DiffersAt(d.ns, before.namespace)
                         /\ \A k \in DOMAIN plugin.policy :
                                plugin.policy[k].key = d.key => k = j )
                        => d.key \notin DOMAIN after.config

C15_Witness ==
    /\ MergeRan
    /\ main_pc = "returned"
    /\ plugin.policy = << Rule(<< "a", "b" >>, "x", FALSE, TRUE, 7) >>
    /\ Len(diag.metrics) = 2
    /\ diag.metrics[1] = Metric(<< "a", "b" >>, "x" :> 7)
    /\ diag.metrics[2] = Metric(<< "a", "c" >>, EmptyObj)

\* C16: in diagnostic mode, from _parse_args on, the RPC listener is never
\* started and has no port, no preamble is generated or written, the HTTP
\* server is never bound, the watchdog thread is at most created, never
\* started, and _print_diagnostic runs at most once, on the main thread:
\* exactly once when start_plugin of a collector has ended.
C16_DiagnosticNoNetwork ==
    (mode = "diagnostics" /\ main_pc # "start") =>
        /\ server_stage = "new"
        /\ port = 0
        /\ preamble = None
        /\ \A i \in DOMAIN stdout : stdout[i].kind # "preamble"
        /\ http = "none"
        /\ mon_pc \in {"none", "created"}
        /\ diag.runs <= 1
        /\ main_pc \in {"parsed", "returned", "raised"}
        /\ (main_pc \in {"returned", "raised"} /\ meta.type = "collector")
                => diag.runs = 1

C16_Witness ==
    /\ mode = "diagnostics"
    /\ main_pc = "returned"
    /\ diag.calls = << "update_catalog", "collect" >>
    /\ Len(diag.metrics) = 2
    /\ server_stage = "new"
    /\ mon_pc = "created"

\* C17: the default-merge of a diagnostic run completes without an error,
\* and a default whose namespace-path has another number of segments than
\* the metric's namespace is not applied to the metric: the metric's
\* configuration lacks the key unless EffectiveConfig or another rule has it.
C17_ExactLengthMatch ==
    MergeRan =>
        /\ exc = "none"
        /\ main_pc = "returned"
        /\ \A j \in DOMAIN plugin.policy : \A i \in DOMAIN plugin.catalog :
              LET d == plugin.policy[j]
                  after == diag.metrics[i]
              IN  ( /\ d.has_default
                    /\ Len(d.ns) # Len(plugin.catalog[i].namespace)
                    /\ d.key \notin DOMAIN config.obj
                    /\ \A k \in DOMAIN plugin.policy :
                           plugin.policy[k].key = d.key => k = j )
                  => d.key \notin DOMAIN after.config

\* a default with the shorter path [a] has been applied to the metric [a, b]
C17_Witness ==
    /\ MergeRan
    /\ main_pc = "returned"
    /\ plugin.policy = << Rule(<< "a" >>, "x", FALSE, TRUE, 9) >>
    /\ diag.metrics = << Metric(<< "a", "b" >>, "x" :> 9) >>

C20_OrderedShutdown ==
    /\ main_pc = "exited" => mon_pc = "stopped"
    /\ (mon_pc = "stopped" /\ hist.mon_called_stop)
          => /\ stop_pc["monitor"] = "returned"
             /\ server_stage = "stopped"
             /\ releases = 1
    /\ (main_pc = "exited" /\ hist.mon_called_stop)
          => /\ stop_pc["monitor"] = "returned"
             /\ server_stage = "stopped"

C20_Witness ==
    /\ main_pc = "exited"
    /\ mode = "normal"
    /\ hist.mon_called_stop
    /\ timeout_count = MaxMissed
    /\ stop_pc["monitor"] = "returned"
    /\ stop_pc["kill"] = "idle"

(***************************************************************************)
(* The stand-alone bind, Spec.                                             *)
(***************************************************************************)
\* the records of the two bind errors that are logged
BindErrors(errno) == {rec \in log : rec.sev = LvlError /\ rec.n = errno /\ rec.msg \in {"Port already in use", "Port numbers below 1000 can be used only by privileged users"}}

\* C21: once HTTPServer has failed with errno 98 or 13, start_plugin has
\* returned with no exception, the error of that cause and not of the other
\* is in the log (the log level lets errors through), the HTTP server is not
\* bound, "Plugin loaded" has not been written and no request has been
\* answered; once it has failed with another errno, start_plugin has raised
\* the OSError and neither bind error is logged.
C21_BindErrorReported ==
    /\ hist.bind_errno \in {98, 13} =>
          /\ main_pc = "returned"
          /\ exc = "none"
          /\ LvlError >= EffectiveLevel(logLevel) =>
                /\ \E rec \in BindErrors(hist.bind_errno) :
                      rec.msg = IF hist.bind_errno = 98
                                THEN "Port already in use"
                                ELSE "Port numbers below 1000 can be used only by privileged users"
                /\ BindErrors(IF hist.bind_errno = 98 THEN 13 ELSE 98) = {}
          /\ http = "none"
          /\ \A i \in DOMAIN stdout : stdout[i].kind # "loaded"
          /\ hist.requests = 0
          /\ hist.response = None
    /\ hist.bind_errno \notin {NotBound, 0, 98, 13} =>
          /\ main_pc = "raised"
          /\ exc = "OSError"
          /\ BindErrors(98) \cup BindErrors(13) = {}
          /\ hist.requests = 0

C21_Witness ==
    /\ hist.bind_errno = 13
    /\ main_pc = "returned"
    /\ mode = "standalone"
    /\ BindErrors(13) # {}

(***************************************************************************)
(* The enumerations in the preamble, SpecArgs.                             *)
(***************************************************************************)
\* a JSON string as json.dumps writes it
Quoted(str) == << "\"", str, "\"" >>

\* C22 as stated: in the preamble's text RPCType is written as the string
\* "Native", "JSON", "gRPC" or "gRPCStream" of the plugin's rpc type, and
\* State as the string "plugin_success" or "plugin_failure".
C22_EnumsAsNames ==
    preamble # None =>
        LET d == preamble[1].doc
        IN  /\ dumps_value(d.Meta.RPCType) = Quoted(RPCType_str[meta.rpc_type])
            /\ dumps_value(d.State) \in {Quoted(st) : st \in DOMAIN PluginResponseStateValue}

\* C22, amended: in the preamble's text every enumeration is written as the
\* decimal number of its member's value: RPCType as 0, 1, 2 or 3 for native,
\* json, grpc, grpc_stream, Type (in Meta and at the top) and
\* RoutingStrategy as their members' values, and State as 0
\* (plugin_success); none of them is a JSON string.
C22_EnumsAsValues ==
    preamble # None =>
        LET d == preamble[1].doc
        IN  /\ dumps_value(d.Meta.RPCType) = py_str(RPCTypeValue[meta.rpc_type])
            /\ dumps_value(d.Meta.Type) = py_str(PluginTypeValue[meta.type])
            /\ dumps_value(d.Type) = py_str(PluginTypeValue[meta.type])
            /\ dumps_value(d.Meta.RoutingStrategy)
                  = py_str(RoutingStrategyValue[meta.routing_strategy])
            /\ dumps_value(d.State) = << "0" >>
            /\ \A j \in {d.Meta.RPCType, d.Meta.Type, d.Type, d.Meta.RoutingStrategy, d.State} :
                  j.t = "int"

C22_Witness ==
    /\ preamble # None
    /\ meta.rpc_type = "grpc_stream"
    /\ meta.type = "publisher"
    /\ dumps_value(preamble[1].doc.Meta.RPCType) = << "3" >>
    /\ dumps_value(preamble[1].doc.Meta.Type) = << "2" >>

(***************************************************************************)
(* The last-ping timestamp, Spec.                                          *)
(***************************************************************************)
\* C23: the last-ping timestamp is the construction time until
\* start_plugin is called; a step that changes it sets it to the current
\* time and is no step of the watchdog or of stop_plugin (the watchdog's
\* position and counters, the stop_plugin calls and the flag stay as they
\* are); every step of the watchdog or of stop_plugin leaves it unchanged;
\* and every ping sets it to the current time and leaves the shutting-down
\* flag and the miss counter unchanged.
C23_LastPingWriters ==
    /\ [](main_pc = "start" => last_ping = 0)
    /\ [][last_ping' # last_ping
            => /\ last_ping' = now
               /\ UNCHANGED << mon_pc, timeout_count, last_check, shutting_down,
                               stop_pc, stop_ev, server_stage >>]_vars
    /\ [][(Monitor \/ StopPlugin \/ ServerShutdownComplete \/ \E c \in Callers : KillRequest(c))
            => last_ping' = last_ping]_vars
    /\ [][Ping => /\ last_ping' = now
                  /\ shutting_down' = shutting_down
                  /\ timeout_count' = timeout_count]_vars

C23_Witness ==
    /\ last_ping = now
    /\ last_ping > last_check
    /\ timeout_count = 2
    /\ ~shutting_down
    /\ mon_pc = "sleep"

(***************************************************************************)
(* The watchdog's miss counter, Spec.                                      *)
(***************************************************************************)
\* the watchdog counts a miss in this step
CountsMiss == timeout_count' > timeout_count

\* the watchdog calls stop_plugin in this step
CallsStop == mon_pc # "stop_plugin" /\ mon_pc' = "stop_plugin"

\* the parts below hold of the counter whatever the last clause of C24 says:
\* the counter stays in 0..3; it goes up by one, and only when more than
\* timeout has passed both since the last miss (or the start) and since the
\* last ping, the step resetting the reference time; the reference time is
\* reset by no other step of a running watchdog; the counter goes down only
\* to 0 and only when the check finds a ping within timeout, and it survives
\* a check without a miss only if that check found no such ping; the watchdog
\* calls stop_plugin only in the step that counts the third miss.
CounterDiscipline ==
    /\ [](timeout_count \in 0 .. MaxMissed)
    /\ [][CountsMiss => /\ timeout_count' = timeout_count + 1
                        /\ now - last_check > timeout
                        /\ now - last_ping > timeout
                        /\ last_check' = now]_vars
    /\ [][(last_check' # last_check /\ mon_pc # "created") => CountsMiss]_vars
    /\ [][timeout_count' < timeout_count
            => (timeout_count' = 0 /\ now - last_ping <= timeout)]_vars
    /\ [][(mon_pc = "elif" /\ mon_pc' = "sleep" /\ timeout_count' = timeout_count
              /\ timeout_count > 0) => now - last_ping > timeout]_vars
    /\ [][CallsStop => (CountsMiss /\ timeout_count' = MaxMissed)]_vars

\* C24 as stated: the counter is kept as above, and when the watchdog calls
\* stop_plugin no ping has arrived for more than 3 x timeout.
C24_ThreeTimeoutsWithoutPing ==
    /\ CounterDiscipline
    /\ [][CallsStop => now - last_ping > MaxMissed * timeout]_vars

\* C24, amended: the counter is kept as above, and when the watchdog calls
\* stop_plugin the watchdog has been running for more than 3 x timeout and
\* the last ping is more than timeout old.
C24_ThreeMissedWindows ==
    /\ CounterDiscipline
    /\ [][CallsStop => /\ now - hist.mon_started > MaxMissed * timeout
                       /\ now - last_ping > timeout]_vars

\* the watchdog has called stop_plugin two timeouts after a ping
C24_Witness ==
    /\ mon_pc = "stop_plugin"
    /\ timeout_count = MaxMissed
    /\ last_check = now
    /\ last_ping > 0
    /\ now - last_ping = 2 * timeout

====
